---- MODULE Spec2Model ----
(***************************************************************************)
(* Model of freefall.py: the parameter derivation chain, the deceleration  *)
(* loop, the hover evaluation and the outcome report of the WIPERRtube     *)
(* drop simulation.                                                        *)
(*                                                                         *)
(* The script's quantities are real numbers.  They are modelled as exact   *)
(* rationals <<n, d>> in lowest terms (d > 0); <<0, 0>> stands for a name  *)
(* that has not been assigned yet.  The module-level parameters of the     *)
(* script are the inputs of a run and are drawn from small sets.           *)
(***************************************************************************)
EXTENDS Integers, Sequences, FiniteSets, TLC

-----------------------------------------------------------------------------
(* Bounds of the input sets.                                               *)
MaxTube == 4        \* tube volume, in litres: 1..MaxTube
MaxHead == 3        \* headspace volume, in litres: 1..MaxHead
MaxDry  == 2        \* dry mass, kg: 1..MaxDry
MaxRate == 2        \* total ejection rate, kg/s: 1..MaxRate
MaxVex  == 4        \* water exit velocity, m/s: 1..MaxVex
MaxG    == 2        \* gravitational acceleration: 1..MaxG
MaxAlt  == 3        \* venting altitude, m: 0..MaxAlt
MaxVel  == 2        \* terminal velocity, m/s: 1..MaxVel

-----------------------------------------------------------------------------
(* Exact rational arithmetic.  Sums and comparisons go through the least   *)
(* common denominator and products cancel crosswise, which keeps the       *)
(* intermediate integers small.                                            *)
Abs(x) == IF x < 0 THEN -x ELSE x

RECURSIVE GCD(_, _)
GCD(a, b) == IF b = 0 THEN a ELSE GCD(b, a % b)

LCM(a, b) == (a \div GCD(a, b)) * b

Norm(n, d) ==
    LET s == IF d < 0 THEN -1 ELSE 1
        k == GCD(Abs(n), Abs(d))
    IN  <<(s * n) \div k, (s * d) \div k>>

R(i)       == <<i, 1>>
Unset      == <<0, 0>>
OnLCD(a, b) == LET l == LCM(a[2], b[2])
               IN  <<a[1] * (l \div a[2]), b[1] * (l \div b[2]), l>>
RAdd(a, b) == LET c == OnLCD(a, b) IN Norm(c[1] + c[2], c[3])
RSub(a, b) == LET c == OnLCD(a, b) IN Norm(c[1] - c[2], c[3])
RMul(a, b) == LET x == Norm(a[1], b[2])
                  y == Norm(b[1], a[2])
              IN  Norm(x[1] * y[1], x[2] * y[2])
RDiv(a, b) == RMul(a, Norm(b[2], b[1]))
RLt(a, b)  == LET c == OnLCD(a, b) IN c[1] < c[2]
RLeq(a, b) == LET c == OnLCD(a, b) IN c[1] <= c[2]
RMax(a, b) == IF RLt(a, b) THEN b ELSE a
Ceil(a)    == -((-a[1]) \div a[2])

-----------------------------------------------------------------------------
VARIABLES
    pc,                    \* position in the script
    error,                 \* the exception that ended the run, or "none"
    exit_reason,           \* which exit left the while loop
    tube_volume, head_space_volume, dry_mass, g, dt, venting_altitude,
    water_exit_velocity, total_water_mass_ejection_rate,
    water_volume, water_mass, wet_mass, total_thrust, terminal_velocity,
    t, current_mass, acceleration, current_velocity, current_altitude,
    time_values, altitude_values, velocity_values,
    water_remaining_values, acceleration_values,
    water_remaining, hover,
    report

inputs  == <<tube_volume, head_space_volume, dry_mass, g, dt, venting_altitude,
             water_exit_velocity, total_water_mass_ejection_rate>>
derived == <<water_volume, water_mass, wet_mass, total_thrust, terminal_velocity>>
sim     == <<t, current_mass, acceleration, current_velocity, current_altitude>>
trace   == <<time_values, altitude_values, velocity_values,
             water_remaining_values, acceleration_values>>
result  == <<water_remaining, hover>>
vars    == <<pc, error, exit_reason, inputs, derived, sim, trace, result, report>>

water_density == 1000      \* kg / m3
PlotScale     == 10        \* altitude and water are plotted in tens

DtSet == {<<1, 2>>, <<1, 1>>}

NoReport == [outcome |-> "none", peak |-> Unset, hover_altitude |-> Unset,
             impact_velocity |-> Unset, water_left |-> Unset,
             depleted_altitude |-> Unset]

-----------------------------------------------------------------------------
(* The parameters of a run (lines 15-40 and 71).  Volumes are the cylinder *)
(* volumes of lines 43-44, taken in whole litres; thrust and ejection rate *)
(* are fixed by the exit velocity and the total nozzle flow (lines 59-63). *)
Init ==
    /\ pc = "derive"
    /\ error = "none"
    /\ exit_reason = "none"
    /\ tube_volume \in {Norm(k, 1000) : k \in 1..MaxTube}
    /\ head_space_volume \in {Norm(k, 1000) : k \in 1..MaxHead}
    /\ dry_mass \in {R(k) : k \in 1..MaxDry}
    /\ g \in {R(k) : k \in 1..MaxG}
    /\ dt \in DtSet
    /\ venting_altitude \in {R(k) : k \in 0..MaxAlt}
    /\ water_exit_velocity \in {R(k) : k \in 1..MaxVex}
    /\ total_water_mass_ejection_rate \in {R(k) : k \in 1..MaxRate}
    /\ water_volume = Unset /\ water_mass = Unset /\ wet_mass = Unset
    /\ total_thrust = Unset /\ terminal_velocity = Unset
    /\ t = Unset /\ current_mass = Unset /\ acceleration = Unset
    /\ current_velocity = Unset /\ current_altitude = Unset
    /\ time_values = <<>> /\ altitude_values = <<>> /\ velocity_values = <<>>
    /\ water_remaining_values = <<>> /\ acceleration_values = <<>>
    /\ water_remaining = Unset /\ hover = FALSE
    /\ report = NoReport

-----------------------------------------------------------------------------
(* The arithmetic of the script, one operator per expression.              *)

\* the mass decremented by one step's water instead of the elapsed time's
MutCurrentMassPerStep(wet, rate, time) == RSub(wet, RMul(rate, dt))

\* line 84
CurrentMass(wet, rate, time) == RSub(wet, RMul(rate, time))

\* line 88
NetForce(thrust, mass, grav) == RSub(thrust, RMul(mass, grav))

\* line 89
Acceleration(thrust, mass, grav) == RDiv(NetForce(thrust, mass, grav), mass)

\* the acceleration applied with the wrong sign
MutNewVelocityAdds(v, a, step) == RAdd(v, RMul(a, step))

\* line 90
NewVelocity(v, a, step) == RSub(v, RMul(a, step))

\* the displacement applied with the wrong sign
MutNewAltitudeAdds(alt, v, step) == RAdd(alt, RMul(v, step))

\* line 91
NewAltitude(alt, v, step) == RSub(alt, RMul(v, step))

\* line 102
WaterRemaining(mass, dry) == RMax(R(0), RSub(mass, dry))

\* line 103: "alt >= 0 and water_remaining" is truthy iff the altitude is
\* non-negative and the remaining water is not zero
HoverEval(alt, remaining) == RLeq(R(0), alt) /\ remaining # R(0)

\* line 85
WaterDepleted(mass, dry) == RLeq(mass, dry)

\* line 93
HoverAchieved(v) == RLeq(v, R(0))

\* line 82
AboveGround(alt) == RLt(R(0), alt)

-----------------------------------------------------------------------------
(* Lines 43-73: the derived parameters and the initial simulation state.   *)
(* The terminal velocity (line 54) is the square root of                   *)
(* 2 * wet_mass * g / (air_density * Cd * drag_area): a math domain error  *)
(* for a negative wet mass, zero for a zero wet mass, and otherwise any    *)
(* positive value, the drag area being a free positive parameter.          *)
DerivedWaterVolume == RSub(tube_volume, head_space_volume)
DerivedWaterMass   == RMul(DerivedWaterVolume, R(water_density))
DerivedWetMass     == RAdd(dry_mass, DerivedWaterMass)
DerivedThrust      == RMul(total_water_mass_ejection_rate, water_exit_velocity)

SetDerived(vt) ==
    /\ water_volume' = DerivedWaterVolume
    /\ water_mass' = DerivedWaterMass
    /\ wet_mass' = DerivedWetMass
    /\ total_thrust' = DerivedThrust
    /\ terminal_velocity' = vt

DeriveOk ==
    /\ pc = "derive"
    /\ ~ RLt(DerivedWetMass, R(0))
    /\ \E v \in 1..MaxVel :
          SetDerived(IF DerivedWetMass = R(0) THEN R(0) ELSE R(v))
    /\ t' = R(0)
    /\ current_velocity' = terminal_velocity'
    /\ current_altitude' = venting_altitude
    /\ pc' = "loop"
    /\ UNCHANGED <<error, exit_reason, inputs, current_mass, acceleration,
                   trace, result, report>>

DeriveDomainError ==
    /\ pc = "derive"
    /\ RLt(DerivedWetMass, R(0))
    /\ water_volume' = DerivedWaterVolume
    /\ water_mass' = DerivedWaterMass
    /\ wet_mass' = DerivedWetMass
    /\ pc' = "error"
    /\ error' = "ValueError"
    /\ UNCHANGED <<exit_reason, inputs, total_thrust, terminal_velocity, sim,
                   trace, result, report>>

-----------------------------------------------------------------------------
(* Lines 82-100: one action per way an evaluation of the loop can go.      *)

\* line 82: the loop condition fails
LoopExit ==
    /\ pc = "loop"
    /\ ~ AboveGround(current_altitude)
    /\ pc' = "eval"
    /\ exit_reason' = "altitude"
    /\ UNCHANGED <<error, inputs, derived, sim, trace, result, report>>

StepTime == RAdd(t, dt)
StepMass == CurrentMass(wet_mass, total_water_mass_ejection_rate, StepTime)
StepAcceleration == Acceleration(total_thrust, StepMass, g)
StepVelocity == NewVelocity(current_velocity, StepAcceleration, dt)
\* explicit Euler: the altitude advanced with the velocity before its update
MutStepAltitudeOldVelocity == NewAltitude(current_altitude, current_velocity, dt)
StepAltitude == NewAltitude(current_altitude, StepVelocity, dt)

\* the water check placed after the append: the depleted step is recorded
MutStepWaterDepletedAppends ==
    /\ pc = "loop"
    /\ AboveGround(current_altitude)
    /\ WaterDepleted(StepMass, dry_mass)
    /\ t' = StepTime
    /\ current_mass' = StepMass
    /\ time_values' = Append(time_values, StepTime)
    /\ altitude_values' =
          Append(altitude_values, RDiv(current_altitude, R(PlotScale)))
    /\ velocity_values' = Append(velocity_values, current_velocity)
    /\ water_remaining_values' = Append(water_remaining_values, R(0))
    /\ acceleration_values' = Append(acceleration_values, acceleration)
    /\ pc' = "eval"
    /\ exit_reason' = "water"
    /\ UNCHANGED <<error, inputs, derived, acceleration, current_velocity,
                   current_altitude, result, report>>

\* lines 83-86: the iteration that runs out of water
StepWaterDepleted ==
    /\ pc = "loop"
    /\ AboveGround(current_altitude)
    /\ WaterDepleted(StepMass, dry_mass)
    /\ t' = StepTime
    /\ current_mass' = StepMass
    /\ pc' = "eval"
    /\ exit_reason' = "water"
    /\ UNCHANGED <<error, inputs, derived, acceleration, current_velocity,
                   current_altitude, trace, result, report>>

Integrate ==
    /\ t' = StepTime
    /\ current_mass' = StepMass
    /\ acceleration' = StepAcceleration
    /\ current_velocity' = StepVelocity
    /\ current_altitude' = StepAltitude

\* the hover check placed after the append: the hover step is recorded
MutStepHoverAppends ==
    /\ pc = "loop"
    /\ AboveGround(current_altitude)
    /\ ~ WaterDepleted(StepMass, dry_mass)
    /\ HoverAchieved(StepVelocity)
    /\ Integrate
    /\ time_values' = Append(time_values, StepTime)
    /\ altitude_values' = Append(altitude_values, RDiv(StepAltitude, R(PlotScale)))
    /\ velocity_values' = Append(velocity_values, StepVelocity)
    /\ water_remaining_values' =
          Append(water_remaining_values,
                 RDiv(RMax(R(0), RSub(StepMass, dry_mass)), R(PlotScale)))
    /\ acceleration_values' = Append(acceleration_values, StepAcceleration)
    /\ pc' = "eval"
    /\ exit_reason' = "hover"
    /\ UNCHANGED <<error, inputs, derived, result, report>>

\* lines 83-94: the iteration that reaches velocity <= 0
StepHover ==
    /\ pc = "loop"
    /\ AboveGround(current_altitude)
    /\ ~ WaterDepleted(StepMass, dry_mass)
    /\ HoverAchieved(StepVelocity)
    /\ Integrate
    /\ pc' = "eval"
    /\ exit_reason' = "hover"
    /\ UNCHANGED <<error, inputs, derived, trace, result, report>>

\* lines 83-100: the iteration that is appended to the plot values
StepAppend ==
    /\ pc = "loop"
    /\ AboveGround(current_altitude)
    /\ ~ WaterDepleted(StepMass, dry_mass)
    /\ ~ HoverAchieved(StepVelocity)
    /\ Integrate
    /\ time_values' = Append(time_values, StepTime)
    /\ altitude_values' = Append(altitude_values, RDiv(StepAltitude, R(PlotScale)))
    /\ velocity_values' = Append(velocity_values, StepVelocity)
    /\ water_remaining_values' =
          Append(water_remaining_values,
                 RDiv(RMax(R(0), RSub(StepMass, dry_mass)), R(PlotScale)))
    /\ acceleration_values' = Append(acceleration_values, StepAcceleration)
    /\ UNCHANGED <<pc, error, exit_reason, inputs, derived, result, report>>

-----------------------------------------------------------------------------
(* Lines 102-103: a loop that never ran leaves current_mass unassigned.    *)
Evaluate ==
    /\ pc = "eval"
    /\ current_mass # Unset
    /\ water_remaining' = WaterRemaining(current_mass, dry_mass)
    /\ hover' = HoverEval(current_altitude, water_remaining')
    /\ pc' = "report"
    /\ UNCHANGED <<error, exit_reason, inputs, derived, sim, trace, report>>

EvaluateNameError ==
    /\ pc = "eval"
    /\ current_mass = Unset
    /\ pc' = "error"
    /\ error' = "NameError"
    /\ UNCHANGED <<exit_reason, inputs, derived, sim, trace, result, report>>

-----------------------------------------------------------------------------
(* Lines 107-127: the outcome line is printed first (107); line 118 reads  *)
(* acceleration, which only an integrated step assigns.                    *)
Outcome(h) == IF h THEN "SUCCESS" ELSE "FAIL"

Report ==
    /\ pc = "report"
    /\ acceleration # Unset
    /\ report' =
          [outcome           |-> Outcome(hover),
           peak              |-> RDiv(acceleration, g),
           hover_altitude    |-> IF hover THEN current_altitude ELSE Unset,
           impact_velocity   |-> IF hover THEN Unset ELSE current_velocity,
           water_left        |-> IF water_remaining # R(0)
                                 THEN water_remaining ELSE Unset,
           depleted_altitude |-> IF water_remaining # R(0)
                                 THEN Unset ELSE current_altitude]
    /\ pc' = "done"
    /\ UNCHANGED <<error, exit_reason, inputs, derived, sim, trace, result>>

ReportNameError ==
    /\ pc = "report"
    /\ acceleration = Unset
    /\ report' = [NoReport EXCEPT !.outcome = Outcome(hover)]
    /\ pc' = "error"
    /\ error' = "NameError"
    /\ UNCHANGED <<exit_reason, inputs, derived, sim, trace, result>>

-----------------------------------------------------------------------------
Next ==
    \/ DeriveOk
    \/ DeriveDomainError
    \/ LoopExit
    \/ StepWaterDepleted
    \/ StepHover
    \/ StepAppend
    \/ Evaluate
    \/ EvaluateNameError
    \/ Report
    \/ ReportNameError

Spec == Init /\ [][Next]_vars

TypeOK ==
    /\ pc \in {"derive", "loop", "eval", "report", "done", "error"}
    /\ error \in {"none", "ValueError", "NameError"}
    /\ exit_reason \in {"none", "altitude", "water", "hover"}
    /\ Len(time_values) = Len(altitude_values)
    /\ Len(time_values) = Len(velocity_values)
    /\ Len(time_values) = Len(water_remaining_values)
    /\ Len(time_values) = Len(acceleration_values)

-----------------------------------------------------------------------------
(* Vocabulary of the properties.  The properties are written with the      *)
(* rational arithmetic itself, not with the operators of the model.        *)
Zero        == R(0)
Last        == Len(time_values)
Derived     == water_volume # Unset
LoopLeft    == exit_reason # "none"
RunEnded    == pc \in {"done", "error"}
OutcomeOut  == report.outcome # "none"
PrevAltitude == IF Last = 0 THEN venting_altitude
                ELSE RMul(altitude_values[Last], R(PlotScale))
PrevVelocity == IF Last = 0 THEN terminal_velocity ELSE velocity_values[Last]
Iterations  == IF t = Unset THEN Zero ELSE RDiv(t, dt)
DepletionBound ==
    Ceil(RDiv(water_mass, RMul(total_water_mass_ejection_rate, dt)))

-----------------------------------------------------------------------------
\* C1: the printed outcome is SUCCESS (Hover) if and only if the loop was left
\* through the velocity <= 0 check with remaining water > 0 and altitude >= 0;
\* every other exit prints FAIL (Impact), also when the altitude check ends
\* the loop with the altitude exactly 0 and water remaining.
C1_HoverIffVelocityExit ==
    OutcomeOut =>
        (report.outcome = "SUCCESS" <=>
            /\ exit_reason = "hover"
            /\ RLt(dry_mass, current_mass)
            /\ RLeq(Zero, current_altitude))

-----------------------------------------------------------------------------
\* C2 as stated: with total thrust <= wet mass x g the loop is never left
\* through the velocity <= 0 check, and the outcome is FAIL with water left.
C2_ThrustBelowWetWeight ==
    (Derived /\ total_thrust # Unset /\ RLeq(total_thrust, RMul(wet_mass, g))) =>
        /\ exit_reason # "hover"
        /\ OutcomeOut =>
              (report.outcome = "FAIL" /\ RLt(Zero, water_remaining))

\* C2 amended: with total thrust <= dry mass x g the velocity never falls
\* below the terminal velocity it started from, no trace entry has a lower
\* velocity than the one before it, and the loop is never left through the
\* velocity <= 0 check.
C2_ThrustBelowDryWeight ==
    (Derived /\ total_thrust # Unset /\ RLeq(total_thrust, RMul(dry_mass, g))) =>
        /\ exit_reason # "hover"
        /\ RLeq(terminal_velocity, current_velocity)
        /\ \A k \in 2..Last : RLeq(velocity_values[k - 1], velocity_values[k])

C2_Witness ==
    /\ pc = "done"
    /\ RLeq(total_thrust, RMul(dry_mass, g))
    /\ Last >= 2
    /\ RLt(terminal_velocity, current_velocity)

-----------------------------------------------------------------------------
\* C3: a run that left the loop through the water check ends with the
\* outcome FAIL and the water-depleted line printed, and the water-depleted
\* line is printed only after the water check left the loop.
C3_DepletionReported ==
    /\ (RunEnded /\ exit_reason = "water") =>
          (report.outcome = "FAIL" /\ report.depleted_altitude # Unset)
    /\ report.depleted_altitude # Unset => exit_reason = "water"

-----------------------------------------------------------------------------
\* C4 as stated: once the loop is left with a non-empty trace, the time of
\* the last trace entry is strictly less than the final time, on every exit.
C4_LastEntryBeforeTerminal ==
    (LoopLeft /\ Last > 0) => RLt(time_values[Last], t)

\* C4 amended: once the loop is left with a non-empty trace, the last trace
\* entry is exactly one timestep before the final time when the velocity or
\* the water check left the loop, and it is at the final time when the
\* altitude check left it (the step that reached altitude <= 0 is the last
\* trace entry).
C4_LastEntryByExit ==
    (LoopLeft /\ Last > 0) =>
        /\ exit_reason \in {"hover", "water"} =>
              (RAdd(time_values[Last], dt) = t /\ RLt(time_values[Last], t))
        /\ exit_reason = "altitude" => time_values[Last] = t

C4_Witness ==
    /\ pc = "done"
    /\ exit_reason = "hover"
    /\ Last >= 2

-----------------------------------------------------------------------------
\* C5: in every state the k-th trace entry has time k x dt, velocity > 0 and
\* remaining water > 0, an altitude strictly below the entry before it, and
\* the first entry is strictly below the venting altitude.
C5_TraceOrdered ==
    \A k \in 1..Last :
        /\ time_values[k] = RMul(R(k), dt)
        /\ RLt(Zero, velocity_values[k])
        /\ RLt(Zero, water_remaining_values[k])
        /\ k > 1 => RLt(altitude_values[k], altitude_values[k - 1])
        /\ k = 1 => RLt(RMul(altitude_values[k], R(PlotScale)), venting_altitude)

C5_Witness ==
    /\ Last >= 3
    /\ pc = "done"

-----------------------------------------------------------------------------
\* C6: with a negative water volume the run fails before the simulation
\* starts: when it has ended, no loop iteration has run and no outcome line
\* has been printed.
C6_NegativeVolumeRejected ==
    (Derived /\ RLt(water_volume, Zero) /\ RunEnded) =>
        /\ pc = "error"
        /\ t \in {Unset, Zero}
        /\ ~ OutcomeOut

-----------------------------------------------------------------------------
\* C7: with a water volume >= 0 and dt > 0 no step of the run raises an
\* error, whichever exit leaves the loop and also when the loop never runs.
C7_WellFormedRunsClean ==
    (Derived /\ RLeq(Zero, water_volume) /\ RLt(Zero, dt)) => error = "none"

-----------------------------------------------------------------------------
\* C8 as stated: the number of loop iterations never exceeds
\* ceil(water mass / (total ejection rate x dt)).
C8_IterationsWithinCeil ==
    Derived /\ t # Unset => RLeq(Iterations, R(DepletionBound))

\* C8 amended: the number of loop iterations never exceeds
\* max(1, ceil(water mass / (total ejection rate x dt))): a run without water
\* still enters the loop body once when the venting altitude is positive.
C8_IterationsWithinBound ==
    Derived /\ t # Unset =>
        RLeq(Iterations, R(IF DepletionBound < 1 THEN 1 ELSE DepletionBound))

C8_Witness ==
    /\ pc = "done"
    /\ exit_reason = "water"
    /\ DepletionBound >= 3
    /\ Iterations = R(DepletionBound)

-----------------------------------------------------------------------------
\* C9: every loop step that passes the water check sets, from the elapsed
\* time, current mass = wet mass - rate x t; acceleration x current mass =
\* thrust - current mass x g; velocity = old velocity - acceleration x dt;
\* altitude = old altitude - NEW velocity x dt; and the step leaves the loop
\* through the hover check exactly when the new velocity is <= 0.
C9_StepOrder ==
    [][(pc = "loop" /\ t' # t /\ exit_reason' # "water") =>
          /\ t' = RAdd(t, dt)
          /\ current_mass' =
                RSub(wet_mass, RMul(total_water_mass_ejection_rate, t'))
          /\ RLt(dry_mass, current_mass')
          /\ RMul(acceleration', current_mass') =
                RSub(total_thrust, RMul(current_mass', g))
          /\ current_velocity' = RSub(current_velocity, RMul(acceleration', dt))
          /\ current_altitude' = RSub(current_altitude, RMul(current_velocity', dt))
          /\ exit_reason' = "hover" <=> RLeq(current_velocity', Zero)
          /\ exit_reason' = "none" <=> pc' = "loop"]_vars

C9_Witness ==
    /\ pc = "done"
    /\ Last >= 1
    /\ acceleration # Zero
    /\ current_velocity # terminal_velocity
    /\ exit_reason = "hover"

-----------------------------------------------------------------------------
\* C10: the step that runs out of water changes only the time and the
\* current mass, so the report after it (with a non-empty trace) gives the
\* velocity, altitude and acceleration of the last trace entry; the step that
\* reaches velocity <= 0 updates velocity, altitude and acceleration without
\* appending them, so the report after it gives the values of that step.
C10_TerminatingStepFrame ==
    [][/\ (pc = "loop" /\ exit_reason' = "water") =>
             /\ t' = RAdd(t, dt)
             /\ current_mass' # current_mass
             /\ UNCHANGED <<current_velocity, current_altitude, acceleration,
                            trace>>
       /\ (pc = "loop" /\ exit_reason' = "hover") =>
             /\ UNCHANGED trace
             /\ acceleration' # acceleration
             /\ current_velocity' = RSub(PrevVelocity, RMul(acceleration', dt))
             /\ RLt(current_velocity', PrevVelocity)
             /\ current_altitude' = RSub(PrevAltitude, RMul(current_velocity', dt))
       /\ (pc = "report" /\ pc' = "done" /\ exit_reason = "water" /\ Last > 0) =>
             /\ report'.impact_velocity = velocity_values[Last]
             /\ report'.depleted_altitude =
                   RMul(altitude_values[Last], R(PlotScale))
             /\ report'.peak = RDiv(acceleration_values[Last], g)
       /\ (pc = "report" /\ pc' = "done" /\ exit_reason = "hover") =>
             /\ report'.hover_altitude =
                   RSub(PrevAltitude, RMul(current_velocity, dt))
             /\ RMul(RMul(report'.peak, g), current_mass) =
                   RSub(total_thrust, RMul(current_mass, g))
             /\ Last > 0 => report'.peak # RDiv(acceleration_values[Last], g)]_vars

C10_Witness ==
    /\ pc = "done"
    /\ exit_reason = "water"
    /\ Last >= 2
    /\ report.impact_velocity = velocity_values[Last]

====
